---- MODULE Spec2Model ----
(***************************************************************************)
(* PaperClassifier (src/latest.py): a vector index served by a server      *)
(* thread, the similarity aggregation of classify_papers, the metrics of   *)
(* calculate_metrics, the folds of cross_validate, the performance log of  *)
(* _track_performance and the answer dedup of _generate_rationale.         *)
(*                                                                         *)
(* Numbers: a similarity score is an integer number of tenths (7 is 0.7);  *)
(* a mean or a ratio is an exact fraction <<numerator, denominator>>.      *)
(* Strings that the code inspects character by character are sequences of  *)
(* one-character strings.                                                  *)
(***************************************************************************)
EXTENDS Integers, Sequences, FiniteSets, TLC

\* ------------------------------------------------------------------ bounds
MaxCalls == 2        \* top-level calls made on the classifier
MaxPapers == 2       \* files under Papers/ (candidates of one classify_papers call)
MaxK == 3            \* largest k_folds handed to cross_validate

\* ------------------------------------------------------ program constants
top_k == 5           \* _get_similar_papers(..., top_k = 5)
PublishableThreshold == 7   \* avg_publishable_score > 0.7, in tenths
MinAnswerLen == 10   \* len(answer.strip()) > 10
MinSimilarLen == 10  \* len(str1) < 10 or len(str2) < 10
SimilarThreshold == 7       \* threshold: float = 0.7, in tenths

conferences == <<"TMLR", "CVPR", "EMNLP", "NeurIPS", "KDD">>

None == "None"
Na == <<"n", "a">>   \* the string "na"

\* ------------------------------------------------------------ small helpers
Min(a, b) == IF a < b THEN a ELSE b
Max(a, b) == IF a > b THEN a ELSE b
Range(s) == {s[n] : n \in 1..Len(s)}

RECURSIVE SumSeq(_)
SumSeq(s) == IF s = <<>> THEN 0 ELSE Head(s) + SumSeq(Tail(s))

\* exact fractions <<n, d>> with d > 0
Zero == <<0, 1>>
Gt(a, b) == a[1] * b[2] > b[1] * a[2]
Eq(a, b) == a[1] * b[2] = b[1] * a[2]
Add(a, b) == <<a[1] * b[2] + b[1] * a[2], a[2] * b[2]>>

\* np.mean(scores) if scores else 0
Mean(scores) == IF scores = <<>> THEN Zero ELSE <<SumSeq(scores), Len(scores)>>

\* ------------------------------------------------------------------ papers
\* Paper(content, path, is_reference, label, conference); the content only
\* decides similarity scores, which the queries below draw freely.
Paper(dir, n, ref, label, conf) ==
    [path |-> <<dir, n>>, is_reference |-> ref, label |-> label, conference |-> conf]

\* load_dataset: Reference/Publishable/<conf>/*.pdf in self.conferences order,
\* then Reference/Non-Publishable/*.pdf
RefUniverse ==
    << Paper("TMLR", 1, TRUE, "Publishable", "TMLR"),
       Paper("CVPR", 1, TRUE, "Publishable", "CVPR"),
       Paper("Non-Publishable", 1, TRUE, "NonPublishable", None) >>

\* Papers/*.pdf
Candidates(n) == [j \in 1..n |-> Paper("Papers", j, FALSE, None, None)]

\* reference lists a caller of classify_papers may build by hand: a publishable
\* paper with no conference tag, and one tagged outside self.conferences
Untagged == Paper("custom", 1, TRUE, "Publishable", None)
OffEnum == Paper("custom", 2, TRUE, "Publishable", "ICML")

CustomRefs == { <<Untagged>>, <<OffEnum>> }

\* every paper that can be indexed, in a fixed order
Indexable == RefUniverse \o <<Untagged, OffEnum>>

RECURSIVE SubSeqs(_)
SubSeqs(s) ==
    IF s = <<>> THEN {<<>>}
    ELSE LET rest == SubSeqs(Tail(s))
         IN  rest \cup {<<Head(s)>> \o r : r \in rest}

\* similarity scores a query may report, in tenths
Scores == {5, 9}

\* ------------------------------------------------------------ vector store
\* _index_reference_papers: the document built for one reference paper
\* (the content is what the embedder turns into the scores drawn at a query)
Document(paper) ==
    [label |-> paper.label, conference |-> paper.conference, path |-> paper.path]

Documents(reference_papers) ==
    [n \in 1..Len(reference_papers) |-> Document(reference_papers[n])]

\* the index is a multiset of documents: how many copies of each it holds
EmptyIndex == [n \in 1..Len(Indexable) |-> 0]

Slot(document) == CHOOSE n \in 1..Len(Indexable) : Document(Indexable[n]) = document

\* add_documents, one document: nothing already indexed is removed or replaced
AddDocument(idx, document) == [idx EXCEPT ![Slot(document)] = @ + 1]

RECURSIVE Entries(_, _)
\* the indexed documents as a list, copies included
Entries(idx, n) ==
    IF n > Len(Indexable) THEN <<>>
    ELSE [j \in 1..idx[n] |-> Document(Indexable[n])] \o Entries(idx, n + 1)

Remove(s, n) == SubSeq(s, 1, n - 1) \o SubSeq(s, n + 1, Len(s))

\* position of the best-scoring entry, the earliest indexed among equals
FirstMax(entries, sc) ==
    CHOOSE n \in 1..Len(entries) :
        /\ \A m \in 1..Len(entries) : sc[entries[m].path] <= sc[entries[n].path]
        /\ \A m \in 1..(n - 1) : sc[entries[m].path] < sc[entries[n].path]

RECURSIVE SortByScore(_, _)
SortByScore(entries, sc) ==
    IF entries = <<>> THEN <<>>
    ELSE LET n == FirstMax(entries, sc)
         IN  <<[score |-> sc[entries[n].path], metadata |-> entries[n]]>>
             \o SortByScore(Remove(entries, n), sc)

\* vector_client.query(query, k): the k best entries of the index, best first;
\* sc gives the similarity of the query to each indexed document
Query(entries, sc, k) ==
    SubSeq(SortByScore(entries, sc), 1, Min(k, Len(entries)))

\* ------------------------------------------------------ similarity aggregator
ScoresOf(results) == [n \in 1..Len(results) |-> results[n].score]

IsPublishableNeighbor(result) == result.metadata.label = "Publishable"

\* publishable_scores after the loop over similar_papers
publishable_scores(similar) == ScoresOf(SelectSeq(similar, IsPublishableNeighbor))

\* conference_scores[conf] after the loop over similar_papers
conference_scores(similar, conf) ==
    LET Tagged(result) ==
            /\ result.metadata.label = "Publishable"
            /\ result.metadata.conference # None
            /\ result.metadata.conference = conf
    IN  ScoresOf(SelectSeq(similar, Tagged))

\* conference_scores[metadata["conference"]] raises KeyError for a tag that
\* is no key of the dict built from self.conferences
RaisesKeyError(similar) ==
    \E n \in 1..Len(similar) :
        /\ similar[n].metadata.label = "Publishable"
        /\ similar[n].metadata.conference # None
        /\ similar[n].metadata.conference \notin Range(conferences)

avg_publishable_score(similar) == Mean(publishable_scores(similar))

is_publishable_ge(avg) == ~Gt(<<PublishableThreshold, 1>>, avg)
is_publishable(avg) == Gt(avg, <<PublishableThreshold, 1>>)

conf_avg_scores(similar) ==
    [conf \in Range(conferences) |-> Mean(conference_scores(similar, conf))]

\* max(conf_avg_scores.items(), key = lambda x: x[1])[0]: the dict iterates in
\* self.conferences order and max keeps the first of the largest
RECURSIVE MaxFrom(_, _, _)
MaxFrom(avgs, n, best) ==
    IF n > Len(conferences) THEN best
    ELSE MaxFrom(avgs, n + 1,
                 IF Gt(avgs[conferences[n]], avgs[best]) THEN conferences[n] ELSE best)

RECURSIVE MaxFromLast(_, _, _)
MaxFromLast(avgs, n, best) ==
    IF n > Len(conferences) THEN best
    ELSE MaxFromLast(avgs, n + 1,
                 IF ~Gt(avgs[best], avgs[conferences[n]]) THEN conferences[n] ELSE best)

RECURSIVE MinFrom(_, _, _)
MinFrom(avgs, n, best) ==
    IF n > Len(conferences) THEN best
    ELSE MinFrom(avgs, n + 1,
                 IF Gt(avgs[best], avgs[conferences[n]]) THEN conferences[n] ELSE best)

best_conf_min(avgs) == MinFrom(avgs, 2, conferences[1])
best_conf_last(avgs) == MaxFromLast(avgs, 2, conferences[1])
best_conf(avgs) == MaxFrom(avgs, 2, conferences[1])

\* -------------------------------------------------------- rationale extractor
Lower(ch) == IF ch = "A" THEN "a" ELSE IF ch = "B" THEN "b" ELSE ch

LowerStr(str) == [n \in 1..Len(str) |-> Lower(str[n])]

\* sum(1 for a, b in zip(str1.lower(), str2.lower()) if a == b)
Common(str1, str2) ==
    Cardinality({n \in 1..Min(Len(str1), Len(str2)) :
                    LowerStr(str1)[n] = LowerStr(str2)[n]})

similar_strings_sum(str1, str2) ==
    IF Len(str1) < MinSimilarLen \/ Len(str2) < MinSimilarLen THEN FALSE
    ELSE Common(str1, str2) * 10 > SimilarThreshold * (Len(str1) + Len(str2))

\* _similar_strings(str1, str2, threshold = 0.7)
similar_strings(str1, str2) ==
    IF Len(str1) < MinSimilarLen \/ Len(str2) < MinSimilarLen THEN FALSE
    ELSE Common(str1, str2) * 10 > SimilarThreshold * Max(Len(str1), Len(str2))

\* str.strip() over the blank " "
RECURSIVE LStrip(_)
LStrip(str) == IF str # <<>> /\ Head(str) = " " THEN LStrip(Tail(str)) ELSE str

RECURSIVE RStrip(_)
RStrip(str) ==
    IF str # <<>> /\ str[Len(str)] = " " THEN RStrip(SubSeq(str, 1, Len(str) - 1))
    ELSE str

Strip(str) == RStrip(LStrip(str))

\* the loop over questions: an answer is kept, stripped, when
\* answer and len(answer.strip()) > 10
RECURSIVE KeptAnswers(_)
KeptAnswers(decoded) ==
    IF decoded = <<>> THEN <<>>
    ELSE LET answer == Head(decoded)
         IN  (IF answer # <<>> /\ Len(Strip(answer)) > MinAnswerLen
              THEN <<Strip(answer)>> ELSE <<>>) \o KeptAnswers(Tail(decoded))

\* the loop that builds unique_answers from answers
RECURSIVE Dedup(_, _)
Dedup(answers, unique) ==
    IF answers = <<>> THEN unique
    ELSE Dedup(Tail(answers),
               IF \E n \in 1..Len(unique) : similar_strings(Head(answers), unique[n])
               THEN unique ELSE Append(unique, Head(answers)))

UniqueAnswers(decoded) == Dedup(KeptAnswers(decoded), <<>>)

\* ". ".join(parts)
RECURSIVE Join(_)
Join(parts) ==
    IF parts = <<>> THEN <<>>
    ELSE IF Len(parts) = 1 THEN parts[1]
    ELSE parts[1] \o <<".", " ">> \o Join(Tail(parts))

\* _generate_rationale, from the title it derives from the content and the
\* answers the QA model decodes for the three questions
generate_rationale(title, conference, decoded) ==
    IF KeptAnswers(decoded) # <<>>
    THEN <<"This paper is relevant to ", conference, " because ">>
         \o Join(SubSeq(UniqueAnswers(decoded), 1, Min(2, Len(UniqueAnswers(decoded)))))
    ELSE <<"This paper appears relevant to ", conference, " based on its focus on ">>
         \o title

\* ------------------------------------------------------------ result records
EmptyDict == [key \in {} |-> Zero]

PublishableRecord(paper, similar, rationale_text) ==
    LET avgs == conf_avg_scores(similar)
        best == best_conf(avgs)
    IN  [paper_id |-> paper.path,
         publishable |-> 1,
         conference |-> best,
         rationale |-> rationale_text,
         confidence_scores |->
             [publishability |-> avg_publishable_score(similar),
              conference |-> avgs[best]]]

NonPublishableRecordTagged(paper, similar) ==
    [paper_id |-> paper.path,
     publishable |-> 0,
     conference |-> conferences[1],
     rationale |-> Na,
     confidence_scores |-> [publishability |-> avg_publishable_score(similar)]]

NonPublishableRecord(paper, similar) ==
    [paper_id |-> paper.path,
     publishable |-> 0,
     conference |-> "na",
     rationale |-> Na,
     confidence_scores |-> [publishability |-> avg_publishable_score(similar)]]

ErrorRecordNoId(paper, detail) ==
    [paper_id |-> <<"unknown", 0>>,
     publishable |-> 0,
     conference |-> "error",
     rationale |-> detail,
     confidence_scores |-> EmptyDict]

\* the except branch: str(e) is the rationale
ErrorRecord(paper, detail) ==
    [paper_id |-> paper.path,
     publishable |-> 0,
     conference |-> "error",
     rationale |-> detail,
     confidence_scores |-> EmptyDict]

\* what the QA model decodes for the three questions, and the derived title,
\* in the pipeline runs: one answer of eleven characters (the other shapes are
\* drawn where _generate_rationale runs on its own)
PipelineDecoded ==
    { << <<"a", "a", "a", "a", "a", "a", "a", "a", "a", "a", "a">>, <<>>, <<>> >> }

PipelineTitle == <<"t">>

\* str(e) of the exception a failing query raises
QueryErrors == { <<"ConnectionError">> }

\* ---------------------------------------------------------------- the state
VARIABLES
    reference_papers,      \* self.reference_papers
    performance_metrics,   \* self.performance_metrics
    index,                 \* the documents the server has indexed
    pending,               \* documents handed to add_documents, not yet indexed
    pc,                    \* where the calling thread is
    batch,                 \* classify_papers: its parameter reference_papers
    papers,                \* classify_papers: its parameter papers
    results,               \* classify_papers: results
    i,                     \* classify_papers: position of the loop over papers
    similar_papers,        \* classify_papers: similar_papers of the last paper
    faults,                \* classify_papers: str(e) of what each paper raised, <<>> if nothing
    cm,                    \* frame of calculate_metrics
    cv,                    \* frame of cross_validate
    ret,                   \* outcome of the last top-level call
    entry_reference_papers,\* self.reference_papers when the top-level call began
    invocations,           \* classify_papers invocations made so far
    calls,                 \* top-level calls made so far
    decoded,               \* _generate_rationale: the decoded answers
    unique_answers,        \* _generate_rationale: unique_answers
    rationale              \* _generate_rationale: its result

pipeline_vars ==
    <<reference_papers, performance_metrics, index, pending, pc, batch, papers,
      results, i, similar_papers, faults, cm, cv, ret, entry_reference_papers,
      invocations, calls>>

rationale_vars == <<decoded, unique_answers, rationale>>

vars == <<pipeline_vars, rationale_vars>>

NoCm == [active |-> FALSE, validation_papers |-> <<>>]

NoCv == [active |-> FALSE, k_folds |-> 0, all |-> <<>>, folds |-> <<>>,
         fold |-> 0, metrics_list |-> <<>>]

NoRet == [op |-> "none", raised |-> "none", value |-> <<>>]

\* __init__
PipelineInit ==
    /\ reference_papers = <<>>
    /\ performance_metrics = <<>>
    /\ index = EmptyIndex
    /\ pending = <<>>
    /\ pc = "idle"
    /\ batch = <<>>
    /\ papers = <<>>
    /\ results = <<>>
    /\ i = 1
    /\ similar_papers = <<>>
    /\ faults = <<>>
    /\ cm = NoCm
    /\ cv = NoCv
    /\ ret = NoRet
    /\ entry_reference_papers = <<>>
    /\ invocations = 0
    /\ calls = 0

Init ==
    /\ PipelineInit
    /\ decoded = <<>>
    /\ unique_answers = <<>>
    /\ rationale = <<>>

\* ------------------------------------------------------------- the pipeline
\* the locals of a classify_papers call that is over
NoLocals ==
    /\ batch' = <<>>
    /\ papers' = <<>>
    /\ results' = <<>>
    /\ i' = 1
    /\ similar_papers' = <<>>
    /\ faults' = <<>>

\* load_dataset: the reference files found (in directory order);
\* self.reference_papers is replaced. (The candidates it also returns are drawn
\* where classify_papers is called. A top-level call starts with nothing left
\* of the locals of the call before it.)
LoadDataset ==
    /\ pc = "idle"
    /\ calls < MaxCalls
    /\ \E refs \in SubSeqs(RefUniverse) :
          /\ reference_papers' = refs
          /\ entry_reference_papers' = reference_papers
          /\ ret' = [op |-> "load_dataset", raised |-> "none",
                     value |-> refs]
    /\ calls' = calls + 1
    /\ NoLocals
    /\ UNCHANGED <<performance_metrics, index, pending, pc, cm, cv, invocations>>
    /\ UNCHANGED rationale_vars

\* An exception that leaves classify_papers goes through the wrapper of
\* _track_performance (which has no try/finally: nothing is appended) and
\* through calculate_metrics and cross_validate, none of which catches it.
Propagate(op, error) ==
    /\ pc' = "idle"
    /\ ret' = [op |-> op, raised |-> error, value |-> <<>>]
    /\ cm' = NoCm
    /\ cv' = NoCv
    /\ NoLocals

\* classify_papers from the wrapper's entry to the loop: results = [] and
\* _index_reference_papers(reference_papers), which hands the documents to the
\* server and returns, or raises (it is outside the try)
EnterClassify(op, refs, ps) ==
    /\ invocations' = invocations + 1
    /\ \/ /\ pending' = pending \o Documents(refs)
          /\ batch' = refs
          /\ papers' = ps
          /\ results' = <<>>
          /\ i' = 1
          /\ similar_papers' = <<>>
          /\ faults' = <<>>
          /\ pc' = "classify"
          /\ ret' = NoRet
       \/ /\ Propagate(op, "IndexError")
          /\ UNCHANGED pending
    /\ UNCHANGED <<performance_metrics, index>>

\* a top-level classify_papers(reference_papers, papers)
CallClassifyPapers ==
    /\ pc = "idle"
    /\ calls < MaxCalls
    /\ calls' = calls + 1
    /\ entry_reference_papers' = reference_papers
    /\ \E refs \in {reference_papers} \cup CustomRefs, n \in 0..MaxPapers :
          /\ EnterClassify("classify_papers", refs, Candidates(n))
          /\ cm' = NoCm
          /\ cv' = NoCv
    /\ UNCHANGED reference_papers
    /\ UNCHANGED rationale_vars

\* the server runs in its own thread (run_server(threaded = True)) and indexes
\* what add_documents handed to it ("will be automatically indexed by the
\* server"); the calling thread does not wait for it: one document per step
ServerIndex ==
    /\ pending # <<>>
    /\ index' = AddDocument(index, Head(pending))
    /\ pending' = Tail(pending)
    /\ UNCHANGED <<reference_papers, performance_metrics, pc, batch, papers, results,
                   i, similar_papers, faults, cm, cv, ret, entry_reference_papers,
                   invocations, calls>>
    /\ UNCHANGED rationale_vars

IndexedPaths == {Indexable[n].path : n \in {m \in 1..Len(Indexable) : index[m] > 0}}

\* the body of the try, once the query has returned similar
Classified(paper, similar, title, answers) ==
    IF RaisesKeyError(similar) THEN ErrorRecord(paper, <<"KeyError">>)
    ELSE IF is_publishable(avg_publishable_score(similar))
         THEN PublishableRecord(paper, similar,
                                generate_rationale(title, best_conf(conf_avg_scores(similar)),
                                                   answers))
         ELSE NonPublishableRecord(paper, similar)

\* one iteration of the loop over papers: the query reads the index as the
\* server has it now
ClassifyPaper ==
    /\ pc = "classify"
    /\ i <= Len(papers)
    /\ \/ \E detail \in QueryErrors :
             /\ similar_papers' = <<>>
             /\ faults' = Append(faults, detail)
             /\ results' = Append(results, ErrorRecord(papers[i], detail))
       \/ \E sc \in [IndexedPaths -> Scores], answers \in PipelineDecoded :
             /\ similar_papers' = Query(Entries(index, 1), sc, top_k)
             /\ faults' = Append(faults, IF RaisesKeyError(similar_papers')
                                          THEN <<"KeyError">> ELSE <<>>)
             /\ results' = Append(results,
                                  Classified(papers[i], similar_papers', PipelineTitle,
                                             answers))
       \/ \E sc \in [IndexedPaths -> Scores] :
             /\ similar_papers' = Query(Entries(index, 1), sc, top_k)
             /\ ~RaisesKeyError(similar_papers')
             /\ is_publishable(avg_publishable_score(similar_papers'))
             /\ faults' = Append(faults, <<"RuntimeError">>)
             /\ results' = Append(results, ErrorRecord(papers[i], <<"RuntimeError">>))
    /\ i' = i + 1
    /\ UNCHANGED <<reference_papers, performance_metrics, index, pending, pc, batch,
                   papers, cm, cv, ret, entry_reference_papers, invocations, calls>>
    /\ UNCHANGED rationale_vars

\* PerformanceMetrics(...) of the invocation that just ended
Sample(n) == [invocation |-> n]

\* the loop is over: classify_papers returns results, the wrapper appends
\* the sample, and the caller goes on
ClassifyReturn ==
    /\ pc = "classify"
    /\ i > Len(papers)
    /\ performance_metrics' = Append(performance_metrics, Sample(invocations))
    /\ IF cm.active
       THEN /\ pc' = "metrics"
            /\ UNCHANGED ret
       ELSE /\ pc' = "idle"
            /\ ret' = [op |-> "classify_papers", raised |-> "none", value |-> results]
    /\ UNCHANGED <<reference_papers, index, pending, batch, papers, results, i,
                   similar_papers, faults, cm, cv, entry_reference_papers, invocations,
                   calls>>
    /\ UNCHANGED rationale_vars

\* ------------------------------------------------------- evaluation harness
Mul(a, b) == <<a[1] * b[1], a[2] * b[2]>>
Div(a, b) == <<a[1] * b[2], a[2] * b[1]>>

\* the positions zip(validation_papers, results) visits
Zipped(validation_papers, res) == 1..Min(Len(validation_papers), Len(res))

\* the counters of calculate_metrics after its loop
Counts(validation_papers, res) ==
    LET Z == Zipped(validation_papers, res)
        actual(n) == validation_papers[n].label = "Publishable"
        predicted(n) == res[n].publishable = 1
    IN  [true_positives |-> Cardinality({n \in Z : predicted(n) /\ actual(n)}),
         false_positives |-> Cardinality({n \in Z : predicted(n) /\ ~actual(n)}),
         true_negatives |-> Cardinality({n \in Z : ~predicted(n) /\ ~actual(n)}),
         false_negatives |-> Cardinality({n \in Z : ~predicted(n) /\ actual(n)}),
         conference_correct |->
             Cardinality({n \in Z : /\ predicted(n) /\ actual(n)
                                    /\ validation_papers[n].conference = res[n].conference}),
         total_publishable |-> Cardinality({n \in Z : actual(n)})]

\* accuracy = (true_positives + true_negatives) / len(validation_papers)
AccuracyRaises(validation_papers) == Len(validation_papers) = 0

Accuracy(c, validation_papers) ==
    <<c.true_positives + c.true_negatives, Len(validation_papers)>>

Precision(c) ==
    IF c.true_positives + c.false_positives > 0
    THEN <<c.true_positives, c.true_positives + c.false_positives>> ELSE Zero

Recall(c) ==
    IF c.true_positives + c.false_negatives > 0
    THEN <<c.true_positives, c.true_positives + c.false_negatives>> ELSE Zero

F1(precision, recall) ==
    IF Gt(Add(precision, recall), Zero)
    THEN Div(Mul(<<2, 1>>, Mul(precision, recall)), Add(precision, recall))
    ELSE Zero

ConferenceAccuracy(c) ==
    IF c.total_publishable > 0
    THEN <<c.conference_correct, c.total_publishable>> ELSE Zero

\* the dict calculate_metrics returns
Metrics(validation_papers, res) ==
    LET c == Counts(validation_papers, res)
    IN  [accuracy |-> Accuracy(c, validation_papers),
         precision |-> Precision(c),
         recall |-> Recall(c),
         f1_score |-> F1(Precision(c), Recall(c)),
         conference_accuracy |-> ConferenceAccuracy(c),
         metrics_detail |->
             [true_positives |-> c.true_positives,
              false_positives |-> c.false_positives,
              true_negatives |-> c.true_negatives,
              false_negatives |-> c.false_negatives,
              total_papers |-> Len(validation_papers)]]

\* a top-level calculate_metrics(validation_papers): labelled papers, here
\* none or the reference papers themselves
CallCalculateMetrics ==
    /\ pc = "idle"
    /\ calls < MaxCalls
    /\ calls' = calls + 1
    /\ entry_reference_papers' = reference_papers
    /\ \E validation_papers \in {<<>>, reference_papers} :
          /\ EnterClassify("calculate_metrics", reference_papers, validation_papers)
          /\ cm' = IF pc' = "idle" THEN NoCm
                   ELSE [active |-> TRUE, validation_papers |-> validation_papers]
          /\ cv' = NoCv
    /\ UNCHANGED reference_papers
    /\ UNCHANGED rationale_vars

\* np.mean of a list of fractions
RECURSIVE SumFractions(_)
SumFractions(s) == IF s = <<>> THEN Zero ELSE Add(Head(s), SumFractions(Tail(s)))

MeanFraction(s) == Div(SumFractions(s), <<Len(s), 1>>)

Column(metrics_list, key) == [n \in 1..Len(metrics_list) |-> metrics_list[n][key]]

Average(metrics_list) ==
    [accuracy |-> MeanFraction(Column(metrics_list, "accuracy")),
     f1_score |-> MeanFraction(Column(metrics_list, "f1_score")),
     conference_accuracy |-> MeanFraction(Column(metrics_list, "conference_accuracy"))]

\* calculate_metrics after classify_papers returned: the loop over the zip,
\* the divisions, and the return to the caller
CalculateMetricsFinish ==
    /\ pc = "metrics"
    /\ IF AccuracyRaises(cm.validation_papers)
       THEN /\ Propagate(IF cv.active THEN "cross_validate" ELSE "calculate_metrics",
                         "ZeroDivisionError")
            /\ UNCHANGED reference_papers
       ELSE LET metrics == Metrics(cm.validation_papers, results)
            IN  /\ cm' = NoCm
                /\ IF cv.active
                   THEN /\ cv' = [cv EXCEPT !.metrics_list = Append(@, metrics),
                                            !.fold = @ + 1]
                        /\ pc' = "fold"
                        /\ UNCHANGED ret
                   ELSE /\ pc' = "idle"
                        /\ ret' = [op |-> "calculate_metrics", raised |-> "none",
                                   value |-> metrics]
                        /\ UNCHANGED cv
                /\ NoLocals
                /\ UNCHANGED reference_papers
    /\ UNCHANGED <<performance_metrics, index, pending, entry_reference_papers,
                   invocations, calls>>
    /\ UNCHANGED rationale_vars

\* KFold(n_splits = k, shuffle = True).split: the first n % k folds hold
\* n \div k + 1 of the shuffled positions, the others n \div k
FoldStart(n, k, j) == (j - 1) * (n \div k) + Min(j - 1, n % k) + 1

FoldSize(n, k, j) == (n \div k) + (IF j <= n % k THEN 1 ELSE 0)

Folds(n, k, perm) ==
    [j \in 1..k |-> {perm[m] : m \in FoldStart(n, k, j)..(FoldStart(n, k, j) + FoldSize(n, k, j) - 1)}]

RECURSIVE Pick(_, _, _)
\* reference_papers[idx].tolist() for the sorted index array idx
Pick(all, idx, n) ==
    IF n > Len(all) THEN <<>>
    ELSE (IF n \in idx THEN <<all[n]>> ELSE <<>>) \o Pick(all, idx, n + 1)

ValPapers(frame) == Pick(frame.all, frame.folds[frame.fold], 1)

TrainPapers(frame) ==
    Pick(frame.all, (1..Len(frame.all)) \ frame.folds[frame.fold], 1)

\* a top-level cross_validate(k_folds): KFold refuses k < 2 when it is built
\* and more folds than samples when split
CallCrossValidate ==
    /\ pc = "idle"
    /\ calls < MaxCalls
    /\ calls' = calls + 1
    /\ entry_reference_papers' = reference_papers
    /\ \E k \in 1..MaxK :
          IF k < 2 \/ Len(reference_papers) < k
          THEN /\ Propagate("cross_validate", "ValueError")
          ELSE /\ \E perm \in Permutations(1..Len(reference_papers)) :
                     cv' = [active |-> TRUE, k_folds |-> k, all |-> reference_papers,
                            folds |-> Folds(Len(reference_papers), k, perm),
                            fold |-> 1, metrics_list |-> <<>>]
               /\ pc' = "fold"
               /\ ret' = NoRet
               /\ NoLocals
               /\ UNCHANGED cm
    /\ UNCHANGED <<reference_papers, performance_metrics, index, pending, invocations>>
    /\ UNCHANGED rationale_vars

\* one turn of the loop over kf.split: self.reference_papers = train_papers and
\* calculate_metrics(val_papers); after the last fold, the averages
CrossValidateFold ==
    /\ pc = "fold"
    /\ IF cv.fold <= cv.k_folds
       THEN /\ reference_papers' = TrainPapers(cv)
            /\ EnterClassify("cross_validate", reference_papers', ValPapers(cv))
            /\ IF pc' = "idle"
               THEN TRUE
               ELSE /\ cm' = [active |-> TRUE, validation_papers |-> ValPapers(cv)]
                    /\ UNCHANGED cv
       ELSE /\ pc' = "idle"
            /\ ret' = [op |-> "cross_validate", raised |-> "none",
                       value |-> [fold_metrics |-> cv.metrics_list,
                                  average_metrics |-> Average(cv.metrics_list)]]
            /\ cv' = NoCv
            /\ UNCHANGED <<reference_papers, performance_metrics, index, pending,
                           batch, papers, results, i, similar_papers, faults, cm,
                           invocations>>
    /\ UNCHANGED <<entry_reference_papers, calls>>
    /\ UNCHANGED rationale_vars

PipelineNext ==
    \/ LoadDataset
    \/ CallClassifyPapers
    \/ CallCalculateMetrics
    \/ CallCrossValidate
    \/ CrossValidateFold
    \/ CalculateMetricsFinish
    \/ ServerIndex
    \/ ClassifyPaper
    \/ ClassifyReturn

Next == PipelineNext

Spec == Init /\ [][Next]_vars

\* ------------------------------------------- _generate_rationale on its own
\* k times "a", then "b" up to the length n
AB(k, n) == [j \in 1..n |-> IF j <= k THEN "a" ELSE "b"]

Capitalized(str) == [str EXCEPT ![1] = IF @ = "a" THEN "A" ELSE "B"]

\* answers the QA model may decode: empty, of the lengths around the two length
\* tests, and pairs of length 20 that agree in 19, 15, 14 and 13 places
DecodedAnswers ==
    { <<>>,
      AB(0, MinSimilarLen - 1),
      AB(0, MinAnswerLen), AB(3, MinAnswerLen),
      AB(0, MinAnswerLen + 1), AB(3, MinAnswerLen + 1), AB(4, MinAnswerLen + 1),
      AB(0, 20), AB(5, 20), AB(6, 20), AB(7, 20), AB(20, 20),
      Capitalized(AB(0, 20)), Capitalized(AB(6, 20)),
      <<" ">> \o AB(0, MinAnswerLen + 1) \o <<" ">>,
      <<" ">> \o AB(0, MinAnswerLen) }

RationaleInit ==
    /\ PipelineInit
    /\ decoded \in [1..3 -> DecodedAnswers]
    /\ unique_answers = <<>>
    /\ rationale = <<>>

\* _generate_rationale(paper_content, conference) for the decoded answers
GenerateRationale ==
    /\ rationale = <<>>
    /\ \E conference \in Range(conferences) :
          rationale' = generate_rationale(PipelineTitle, conference, decoded)
    /\ unique_answers' = UniqueAnswers(decoded)
    /\ UNCHANGED <<decoded, pipeline_vars>>

RationaleNext == GenerateRationale

SpecRationale == RationaleInit /\ [][RationaleNext]_vars

\* ==================================================================== claims
\* the call of classify_papers has returned its results to its caller
Returned ==
    \/ pc = "metrics"
    \/ pc = "idle" /\ ret.raised = "none" /\ ret.op = "classify_papers"

\* C1: classify_papers gives one record per paper whatever the papers raise.
\* While the loop runs there is one record for each paper already visited; once
\* the index build has handed over its documents no exception leaves the call
\* (the only exceptions a top-level call ends with are those of the index
\* build, of KFold and of the division in calculate_metrics); the list returned
\* is as long as papers; the n-th record carries the n-th paper's id; and a
\* paper that raised has the record publishable = 0, conference = "error",
\* rationale = str(e), confidence_scores = {}.
C1_OneRecordPerPaper ==
    /\ Len(results) = i - 1
    /\ Len(faults) = Len(results)
    /\ Len(results) <= Len(papers)
    /\ Returned => Len(results) = Len(papers)
    /\ pc = "idle" /\ ret.op = "classify_papers" /\ ret.raised = "none"
          => ret.value = results
    /\ ret.raised \in {"none", "IndexError", "ValueError", "ZeroDivisionError"}
    /\ \A n \in 1..Len(results) :
          /\ results[n].paper_id = papers[n].path
          /\ faults[n] # <<>> =>
                results[n] = [paper_id |-> papers[n].path,
                              publishable |-> 0,
                              conference |-> "error",
                              rationale |-> faults[n],
                              confidence_scores |-> EmptyDict]

\* C1 witness: a call over two papers has returned; the first paper raised,
\* the second was still processed and has a record that is no error record.
C1_Witness ==
    /\ pc = "idle" /\ ret.op = "classify_papers" /\ ret.raised = "none"
    /\ Len(papers) = 2 /\ Len(ret.value) = 2
    /\ faults[1] # <<>> /\ ret.value[1].conference = "error"
    /\ faults[2] = <<>> /\ ret.value[2].conference # "error"

\* C2 as stated: in every record conference != "na" implies publishable = 1,
\* and rationale == "na" implies publishable = 0.
C2_Original ==
    \A n \in 1..Len(results) :
        /\ results[n].conference # "na" => results[n].publishable = 1
        /\ results[n].rationale = Na => results[n].publishable = 0

\* C2 amended: a record whose conference is neither "na" nor "error" has
\* publishable = 1, a record whose conference is "error" has publishable = 0,
\* and in every record rationale == "na" implies publishable = 0.
C2_RecordInvariant ==
    \A n \in 1..Len(results) :
        /\ results[n].conference \notin {"na", "error"} => results[n].publishable = 1
        /\ results[n].conference = "error" => results[n].publishable = 0
        /\ results[n].rationale = Na => results[n].publishable = 0

\* C2 witness: one call produced a publishable record and an error record
C2_Witness ==
    /\ Len(results) = 2
    /\ \E n \in 1..Len(results) :
          results[n].publishable = 1 /\ results[n].conference \in Range(conferences)
    /\ \E n \in 1..Len(results) :
          results[n].publishable = 0 /\ results[n].conference = "error"

\* the step is a query of _get_similar_papers (one turn of the loop over papers)
QueryStep == pc = "classify" /\ i' = i + 1

\* the documents of fold cv.fold's training partition
TrainingDocuments == Range(Documents(TrainPapers(cv)))

\* C3: at every query issued while cross_validate classifies a fold's
\* validation papers, every indexed entry is a document of that fold's
\* training partition, indexed once: nothing is left over from an earlier fold
\* and no validation paper of the fold is indexed.
C3_IndexHoldsOnlyFoldTraining ==
    [][QueryStep /\ cv.active =>
          \A n \in 1..Len(Indexable) :
              /\ index[n] <= 1
              /\ index[n] > 0 => Document(Indexable[n]) \in TrainingDocuments]_vars

\* C4: no query reads an index in which only part of the batch handed to
\* _index_reference_papers has been indexed (the documents still waiting are
\* the last ones handed over: none of the batch, or all of it, never a part).
C4_NoPartialIndexRead ==
    [][QueryStep => ~(0 < Len(pending) /\ Len(pending) < Len(batch))]_vars

\* the record of the paper processed last, whose query returned similar_papers
LastRecord == results[Len(results)]
QueryReturned == results # <<>> /\ faults[Len(faults)] \notin QueryErrors

\* the scores of the neighbors labeled "Publishable", and their sum
PublishableNeighbors ==
    {n \in 1..Len(similar_papers) : similar_papers[n].metadata.label = "Publishable"}

RECURSIVE ScoreSum(_)
ScoreSum(positions) ==
    IF positions = {} THEN 0
    ELSE LET n == CHOOSE m \in positions : TRUE
         IN  similar_papers[n].score + ScoreSum(positions \ {n})

\* the mean of the scores at these positions exceeds 0.7 (0 when there are none)
MeanAboveThreshold(positions) ==
    positions # {} /\ 10 * ScoreSum(positions) > 7 * 10 * Cardinality(positions)

MeanIsThreshold(positions) ==
    positions # {} /\ 10 * ScoreSum(positions) = 7 * 10 * Cardinality(positions)

\* what the claim says of a candidate with no publishable neighbor
NoPublishableNeighborRecord ==
    PublishableNeighbors = {} =>
        /\ LastRecord.publishable = 0
        /\ LastRecord.conference = "na"
        /\ LastRecord.rationale = Na
        /\ Eq(LastRecord.confidence_scores.publishability, Zero)

\* C5 as stated: for every neighbor list returned, publishable = 1 exactly
\* when the mean score of the publishable neighbors exceeds 0.7 (so a mean of
\* exactly 0.7 gives 0), and with no publishable neighbor the record is
\* publishable = 0, conference = "na", rationale = "na", publishability 0.
C5_Original ==
    QueryReturned =>
        /\ LastRecord.publishable = 1 <=> MeanAboveThreshold(PublishableNeighbors)
        /\ NoPublishableNeighborRecord

\* C5 amended: for every neighbor list returned, publishable = 1 exactly when
\* the mean exceeds 0.7 and processing the paper raised no exception (a paper
\* whose scoring or rationale generation raises is reported publishable = 0);
\* a mean of exactly 0.7 gives publishable = 0; the record of a candidate with
\* no publishable neighbor is as stated.
C5_PublishableIffAboveThreshold ==
    QueryReturned =>
        /\ LastRecord.publishable = 1
              <=> (MeanAboveThreshold(PublishableNeighbors) /\ faults[Len(faults)] = <<>>)
        /\ MeanIsThreshold(PublishableNeighbors) => LastRecord.publishable = 0
        /\ faults[Len(faults)] = <<>> /\ LastRecord.publishable = 0
              => LastRecord.conference = "na" /\ LastRecord.rationale = Na
        /\ NoPublishableNeighborRecord

\* C5 witness: the publishable neighbors of the last paper average exactly
\* 0.7 and the paper is reported publishable = 0
C5_Witness ==
    /\ QueryReturned
    /\ MeanIsThreshold(PublishableNeighbors)
    /\ Cardinality(PublishableNeighbors) = 2
    /\ LastRecord.publishable = 0 /\ LastRecord.conference = "na"

\* the neighbors that are publishable and tagged with this conference
TaggedNeighbors(conf) ==
    {n \in PublishableNeighbors : similar_papers[n].metadata.conference = conf}

\* mean score of conference c is below that of conference d
MeanBelow(c, d) ==
    ScoreSum(TaggedNeighbors(c)) * Max(1, Cardinality(TaggedNeighbors(d)))
        < ScoreSum(TaggedNeighbors(d)) * Max(1, Cardinality(TaggedNeighbors(c)))

Position(conf) == CHOOSE n \in 1..Len(conferences) : conferences[n] = conf

\* C6: the conference of a publishable record has the largest mean score (the
\* mean of the publishable neighbors tagged with it, 0 when there are none),
\* every conference listed before it has a strictly smaller mean, and it is
\* TMLR when all five means are 0.
C6_BestConferenceFirstOfLargest ==
    results # <<>> /\ LastRecord.publishable = 1 =>
        /\ LastRecord.conference \in Range(conferences)
        /\ \A c \in Range(conferences) : ~MeanBelow(LastRecord.conference, c)
        /\ \A c \in Range(conferences) :
              Position(c) < Position(LastRecord.conference)
                  => MeanBelow(c, LastRecord.conference)
        /\ (\A c \in Range(conferences) : ScoreSum(TaggedNeighbors(c)) = 0)
              => LastRecord.conference = "TMLR"

\* C6 witness: TMLR and CVPR neighbors with the same positive mean, TMLR chosen
C6_Witness ==
    /\ results # <<>> /\ LastRecord.publishable = 1
    /\ TaggedNeighbors("TMLR") # {} /\ TaggedNeighbors("CVPR") # {}
    /\ ~MeanBelow("TMLR", "CVPR") /\ ~MeanBelow("CVPR", "TMLR")
    /\ LastRecord.conference = "TMLR"

\* C7: calculate_metrics never ends in a division by zero, and the metrics it
\* returns are 0 where the denominator is 0 and the stated quotient otherwise.
C7_MetricsNeverDivideByZero ==
    /\ ret.raised # "ZeroDivisionError"
    /\ ret.op = "calculate_metrics" /\ ret.raised = "none" =>
          LET m == ret.value
              d == m.metrics_detail
              tp == d.true_positives
              fp == d.false_positives
              tn == d.true_negatives
              fn == d.false_negatives
          IN  /\ Eq(m.accuracy, IF d.total_papers = 0 THEN Zero
                                ELSE <<tp + tn, d.total_papers>>)
              /\ Eq(m.precision, IF tp + fp = 0 THEN Zero ELSE <<tp, tp + fp>>)
              /\ Eq(m.recall, IF tp + fn = 0 THEN Zero ELSE <<tp, tp + fn>>)
              /\ tp = 0 => Eq(m.f1_score, Zero)
              /\ tp + fn = 0 => Eq(m.conference_accuracy, Zero)

\* C8: whenever no classify_papers invocation is running, the performance log
\* holds one sample per invocation made so far, also for an invocation that
\* ended in an exception.
C8_OneSamplePerInvocation ==
    pc # "classify" => Len(performance_metrics) = invocations

\* the answers joined into the final rationale: unique_answers[:2]
Parts == SubSeq(unique_answers, 1, Min(2, Len(unique_answers)))

\* both strings have at least 10 characters and the equal lower-cased
\* characters at the same position are at least tenths/10 of the longer length
MatchAtLeast(str1, str2, tenths) ==
    /\ Len(str1) >= 10
    /\ Len(str2) >= 10
    /\ Common(str1, str2) * 10 >= tenths * Max(Len(str1), Len(str2))

MatchAbove(str1, str2, tenths) ==
    /\ Len(str1) >= 10
    /\ Len(str2) >= 10
    /\ Common(str1, str2) * 10 > tenths * Max(Len(str1), Len(str2))

\* the rationale is its opening followed by the joined parts
RationaleHoldsParts ==
    Parts # <<>> => SubSeq(rationale, 4, Len(rationale)) = Join(Parts)

C10_CrossValidateRestoresReferencePapers ==
    pc = "idle" /\ ret.op = "cross_validate" /\ ret.raised = "none"
        => reference_papers = entry_reference_papers

\* every neighbor labeled "Publishable" carries a tag of self.conferences
AllPublishableTagged ==
    \A n \in PublishableNeighbors :
        similar_papers[n].metadata.conference \in Range(conferences)

\* C11: when every neighbor labeled "Publishable" carries a conference tag of
\* the fixed list, the conference of a publishable record has at least one
\* tagged neighbor, its reported confidence_scores.conference is the mean of
\* those neighbors' scores, is not below confidence_scores.publishability and
\* so exceeds 0.7.
C11_ChosenConferenceHasNeighbors ==
    results # <<>> /\ LastRecord.publishable = 1 /\ AllPublishableTagged =>
        LET scores == LastRecord.confidence_scores
            tagged == TaggedNeighbors(LastRecord.conference)
        IN  /\ tagged # {}
            /\ Eq(scores.conference, <<ScoreSum(tagged), Max(1, Cardinality(tagged))>>)
            /\ Eq(scores.publishability,
                  <<ScoreSum(PublishableNeighbors), Cardinality(PublishableNeighbors)>>)
            /\ ~Gt(scores.publishability, scores.conference)
            /\ Gt(scores.conference, <<PublishableThreshold, 1>>)

\* C11 witness: a publishable record whose neighbors are all tagged, two
\* conferences have neighbors, and the chosen conference's score is strictly
\* above the publishability score
C11_Witness ==
    /\ results # <<>> /\ LastRecord.publishable = 1 /\ AllPublishableTagged
    /\ TaggedNeighbors("TMLR") # {} /\ TaggedNeighbors("CVPR") # {}
    /\ Gt(LastRecord.confidence_scores.conference,
          LastRecord.confidence_scores.publishability)

====
